---- MODULE Spec2Model ----
(***************************************************************************)
(* A model of weather_analysis: the memoizing decorator cache_decorator    *)
(* (data_analis/utils.py) and the WeatherDataProcessor built on it         *)
(* (data_analis/data_processing.py).                                       *)
(*                                                                         *)
(* Numbers.  pandas computes in IEEE doubles; the model computes the exact *)
(* value.  A cell of a series is a tuple: <<>> is NaN (missing), <<a, b>>  *)
(* is the rational a/b in lowest terms with b > 0, and <<s, a, b>> is the  *)
(* correlation coefficient s * sqrt(a/b), s in {-1, 0, 1}, a/b in lowest   *)
(* terms.                                                                  *)
(*                                                                         *)
(* Specifications.  Spec: a client calling the methods of two processors   *)
(* one call after the other.  SpecPure: the same client with one processor *)
(* over any short frame.  SpecT: two threads inside wrapper, a statement   *)
(* at a time, with or without a mutex held by the callers.                 *)
(***************************************************************************)
EXTENDS Integers, Sequences, FiniteSets, TLC

\* ------------------------------------------------------------------ bounds

\* Longest input series.
MaxLen == 3
\* Calls and generator creations the client makes in one run (Init).
MaxCalls == 2
\* Calls the client makes in one run of the wide-input specification.
PureCalls == 1
\* Calls the threads make in one run of the threaded specification.
ThreadCalls == 2
\* Temperatures.
Values == {0, 1, 2}
\* The first timestamp of a series (a day; the rows are consecutive days).
Starts == {3}
\* Processor instances (identities).
Procs == {1, 2}
\* Threads of the threaded specification.
Threads == {1, 2}
\* Rows of the test's series that the processors of Init hold.
TestLens == {2, 3}
\* The methods the client also calls through the class, self passed by keyword.
ClassCalls == {"moving_average"}

\* ----------------------------------------------------------------- numbers

NaN == <<>>

IsNaN(c) == c = <<>>

Abs(x) == IF x < 0 THEN -x ELSE x

Sgn(x) == IF x < 0 THEN -1 ELSE IF x > 0 THEN 1 ELSE 0

Min(a, b) == IF a < b THEN a ELSE b

Max(a, b) == IF a < b THEN b ELSE a

RECURSIVE Gcd(_, _)
Gcd(a, b) == IF b = 0 THEN a ELSE Gcd(b, a % b)

\* The float a/b (b > 0), exactly.
Rat(a, b) == LET g == Gcd(Abs(a), b) IN <<a \div g, b \div g>>

Num(v) == <<v, 1>>

\* a < b on cells of integers-or-NaN; a comparison with NaN is False.
Lt(a, b) == ~IsNaN(a) /\ ~IsNaN(b) /\ a[1] * b[2] < b[1] * a[2]

RECURSIVE SumSeq(_)
SumSeq(s) == IF s = <<>> THEN 0 ELSE Head(s) + SumSeq(Tail(s))

\* The increasing sequence of the members of a set of integers.
RECURSIVE Sorted(_)
Sorted(S) ==
    IF S = {} THEN <<>>
    ELSE LET m == CHOOSE x \in S : \A y \in S : x <= y
         IN <<m>> \o Sorted(S \ {m})

\* F(x), with x evaluated once however often F uses it.
Bind(x, F(_)) == CHOOSE y \in {F(v) : v \in {x}} : TRUE

\* ------------------------------------------------------------------ frames

\* A DataFrame with a timestamp index and the column 'temperature'.
Frame(idx, vals) == [index |-> idx, temperature |-> vals]

\* A pandas Series: labels and cells.
Series(idx, cells) == [index |-> idx, values |-> cells]

\* len(self.data)
NRows(f) == Len(f.index)

\* self.data['temperature']
Temperature(f) == Series(f.index, [i \in 1..NRows(f) |-> Num(f.temperature[i])])

\* Series.shift(k): cell i holds the value k rows earlier, NaN off the ends.
Shift(s, k) ==
    Series(s.index,
           [i \in 1..Len(s.values) |->
               IF i - k >= 1 /\ i - k <= Len(s.values) THEN s.values[i - k] ELSE NaN])

\* s[mask]: the rows whose mask is True, labels kept.
Where(s, mask) ==
    LET keep == Sorted({i \in 1..Len(s.values) : mask[i]})
    IN  Series([j \in 1..Len(keep) |-> s.index[keep[j]]],
               [j \in 1..Len(keep) |-> s.values[keep[j]]])

\* result[col] = series: the series re-aligned to the frame's index by label,
\* NaN where the series has no such label.
AlignTo(idx, s) ==
    [i \in 1..Len(idx) |->
        IF \E j \in 1..Len(s.index) : s.index[j] = idx[i]
        THEN s.values[CHOOSE j \in 1..Len(s.index) : s.index[j] = idx[i]]
        ELSE NaN]

\* ------------------------------------------------------- outcomes of a call

Ok(v) == [kind |-> "ok", val |-> v, exc |-> ""]

Raise(e) == [kind |-> "raise", val |-> NaN, exc |-> e]

\* ------------------------------------------------ the processor's operations

\* The window sum after row i of rolling(window=w): the previous sum plus the
\* entering value minus the value that leaves the window.
RECURSIVE RollSum(_, _, _)
RollSum(vals, w, i) ==
    IF i = 0 THEN 0
    ELSE RollSum(vals, w, i - 1) + vals[i] - (IF i > w THEN vals[i - w] ELSE 0)

\* Rows in the window ending at row i.
RollObs(w, i) == Min(i, w)

\* moving_average with min_periods one short of the window.
MovingAverageOffByOne(f, window) ==
    IF window < 0 THEN Raise("ValueError")
    ELSE Ok(Series(f.index,
            [i \in 1..NRows(f) |->
                IF RollObs(window, i) + 1 >= window /\ RollObs(window, i) > 0
                THEN Rat(RollSum(f.temperature, window, i), RollObs(window, i))
                ELSE NaN]))

\* self.data['temperature'].rolling(window=window).mean(); min_periods is the
\* window: a row has a mean once the window is full.  pandas refuses a
\* negative window with a ValueError.
MovingAverageFn(f, window) ==
    IF window < 0 THEN Raise("ValueError")
    ELSE Ok(Series(f.index,
            [i \in 1..NRows(f) |->
                IF RollObs(window, i) >= window /\ RollObs(window, i) > 0
                THEN Rat(RollSum(f.temperature, window, i), RollObs(window, i))
                ELSE NaN]))

\* self.data['temperature'].diff()
DifferentialFn(f) ==
    Ok(Series(f.index,
        [i \in 1..NRows(f) |->
            IF i = 1 THEN NaN ELSE Num(f.temperature[i] - f.temperature[i - 1])]))

\* self.data['temperature'].autocorr(lag=lag): Pearson's r of the series and
\* its shift by lag over the rows where both are present; NaN with no such
\* row or with zero variance on either side.
AutocorrelationFn(f, lag) ==
    LET v     == f.temperature
        n     == Len(v)
        valid == {i \in 1..n : i - lag >= 1 /\ i - lag <= n}
        rows  == Sorted(valid)
        m     == Len(rows)
        sx    == SumSeq([j \in 1..m |-> v[rows[j]]])
        sy    == SumSeq([j \in 1..m |-> v[rows[j] - lag]])
        sxx   == SumSeq([j \in 1..m |-> v[rows[j]] * v[rows[j]]])
        syy   == SumSeq([j \in 1..m |-> v[rows[j] - lag] * v[rows[j] - lag]])
        sxy   == SumSeq([j \in 1..m |-> v[rows[j]] * v[rows[j] - lag]])
        cov   == m * sxy - sx * sy
        vx    == m * sxx - sx * sx
        vy    == m * syy - sy * sy
        g     == Gcd(cov * cov, vx * vy)
    IN  IF m < 1 \/ vx * vy = 0 THEN Ok(NaN)
        ELSE Ok(<<Sgn(cov), (cov * cov) \div g, (vx * vy) \div g>>)

\* find_extremes with >= for > towards the previous row of a maximum.
FindExtremesPlateau(f) ==
    LET t    == Temperature(f)
        prev == Shift(t, 1).values
        next == Shift(t, -1).values
        n    == NRows(f)
    IN  Ok(<<Where(t, [i \in 1..n |-> ~Lt(t.values[i], prev[i]) /\ Lt(next[i], t.values[i])]),
             Where(t, [i \in 1..n |-> Lt(t.values[i], prev[i]) /\ Lt(t.values[i], next[i])])>>)

\* The rows strictly above both neighbours, and those strictly below both;
\* the first and the last row compare with NaN, which is False.
FindExtremesFn(f) ==
    LET t    == Temperature(f)
        prev == Shift(t, 1).values
        next == Shift(t, -1).values
        n    == NRows(f)
    IN  Ok(<<Where(t, [i \in 1..n |-> Lt(prev[i], t.values[i]) /\ Lt(next[i], t.values[i])]),
             Where(t, [i \in 1..n |-> Lt(t.values[i], prev[i]) /\ Lt(t.values[i], next[i])])>>)

\* ------------------------------------------------------------------- state

VARIABLES
    data,     \* processor -> its DataFrame (self.data), never assigned after __init__
    cache,    \* decorated method -> the dict `cache` of its closure
    execs,    \* decorated method -> key -> how often wrapper was called with the key, and
              \* how often func then ran to a result (ok) or to an exception (err)
    first,    \* decorated method -> key -> the first result func returned for the key
    ret,      \* what the last finished call handed its caller
    gens,     \* the generator objects made so far, with what each has yielded
    fuel,     \* calls the client may still make
    tpc,      \* thread -> where it stands in wrapper
    tcall,    \* thread -> the call it is making
    tval,     \* thread -> the result of func it holds before storing it
    lock,     \* the caller-side mutex: 0 when free, else the thread that holds it
    useLock   \* whether the callers wrap every call in the mutex

vars == <<data, cache, execs, first, ret, gens, fuel, tpc, tcall, tval, lock, useLock>>

threadVars == <<tpc, tcall, tval, lock, useLock>>

\* The methods of WeatherDataProcessor under @cache_decorator.
Methods == {"moving_average", "differential", "autocorrelation", "find_extremes", "process_data"}

\* The parameters of each method, in order.
Params(m) ==
    CASE m = "moving_average"  -> <<"self", "window">>
      [] m = "autocorrelation" -> <<"self", "lag">>
      [] OTHER                 -> <<"self">>

\* The window process_data asks for.
ProcessWindow == 7

\* --------------------------------------------------------- cache_decorator

\* A key without the instance.
KeyNoSelf(args, kw) == <<IF args = <<>> THEN args ELSE Tail(args), kw>>

\* key = (args, tuple(kwargs.items()))
Key(args, kw) == <<args, kw>>

\* A check that never finds the key.
MissAlways(c, key) == TRUE

\* key not in cache
Miss(c, key) == key \notin DOMAIN c

\* The value Python binds to parameter `name` of method m in the call
\* m(*args, **kw).
Arg(m, args, kw, name) ==
    LET pos == CHOOSE i \in 1..Len(Params(m)) : Params(m)[i] = name
    IN  IF pos <= Len(args) THEN args[pos]
        ELSE kw[CHOOSE j \in 1..Len(kw) : kw[j][1] = name][2]

\* The memo state the wrappers read and write.
Memo == [cache |-> cache, execs |-> execs, first |-> first]

NoRuns == [calls |-> 0, ok |-> 0, err |-> 0]

Runs(e, key) == IF key \in DOMAIN e THEN e[key] ELSE NoRuns

\* One more of: a call of wrapper with key ("calls"), a run of func for key
\* to a result ("ok") or to an exception ("err").
Ran(S, m, key, how) ==
    [S EXCEPT !.execs[m] =
        (key :> [Runs(@, key) EXCEPT ![how] = @ + 1]) @@ @]

\* cache[key] = value
Store(S, m, key, v) ==
    [S EXCEPT !.cache[m] = (key :> v) @@ @,
              !.first[m] = IF key \in DOMAIN @ THEN @ ELSE (key :> v) @@ @]

\* A wrapper that stores whatever func's run ended with, an exception too.
OnMissKeepFailure(S, m, key, run) ==
    Bind(run, LAMBDA r :
        [S   |-> Store(Ran(r.S, m, key, IF r.out.kind = "ok" THEN "ok" ELSE "err"),
                       m, key, r.out.val),
         out |-> r.out])

\* cache[key] = func(*args, **kwargs), func's run from memo state S having
\* ended in memo state run.S with outcome run.out; then return cache[key].
\* An exception of func leaves the assignment undone and reaches the caller.
OnMiss(S, m, key, run) ==
    Bind(run, LAMBDA r :
        IF r.out.kind = "ok"
        THEN Bind(Store(Ran(r.S, m, key, "ok"), m, key, r.out.val), LAMBDA T :
                [S |-> T, out |-> Ok(T.cache[m][key])])
        ELSE [S |-> Ran(r.S, m, key, "err"), out |-> r.out])

\* wrapper(*args, **kwargs)
Wrapper(S, m, args, kw, run) ==
    LET key == Key(args, kw)
    IN  Bind(IF Miss(S.cache[m], key)
             THEN OnMiss(S, m, key, run)
             ELSE [S |-> S, out |-> Ok(S.cache[m][key])],
             LAMBDA r : [S |-> Ran(r.S, m, key, "calls"), out |-> r.out])

\* The bodies of the methods that call no other method.
Func(m, args, kw) ==
    LET f == data[Arg(m, args, kw, "self")]
    IN  CASE m = "moving_average"  -> MovingAverageFn(f, Arg(m, args, kw, "window"))
          [] m = "differential"    -> DifferentialFn(f)
          [] m = "autocorrelation" -> AutocorrelationFn(f, Arg(m, args, kw, "lag"))
          [] m = "find_extremes"   -> FindExtremesFn(f)

\* A call of a decorated method that calls no other method.
Call(S, m, args, kw) == Wrapper(S, m, args, kw, [S |-> S, out |-> Func(m, args, kw)])

\* ------------------------------------------- autocorrelation_generator

\* A fresh generator object of processor p: nothing of its body has run.
\* `yielded` is what its consumer has received from it so far.
NewGen(p) == [p |-> p, lag |-> 0, done |-> FALSE, yielded |-> <<>>]

\* for lag in range(n)
LagsLeft(g) == g.lag < NRows(data[g.p])

\* A generator that counts its lags from 1.
GenLagShifted(g) == g.lag + 1

\* The lag the generator asks autocorrelation for on its next resumption.
GenLag(g) == g.lag

\* next(g) from memo state S: the generator runs to its next yield of
\* self.autocorrelation(lag), or off the end of the loop (StopIteration).
GenResume(S, g) ==
    IF ~g.done /\ LagsLeft(g)
    THEN Bind(Call(S, "autocorrelation", <<g.p, GenLag(g)>>, <<>>), LAMBDA r :
            IF r.out.kind = "ok"
            THEN [S |-> r.S, out |-> r.out,
                  g |-> [g EXCEPT !.lag = @ + 1, !.yielded = Append(@, r.out.val)]]
            ELSE [S |-> r.S, out |-> r.out, g |-> [g EXCEPT !.done = TRUE]])
    ELSE [S |-> S, out |-> Raise("StopIteration"), g |-> [g EXCEPT !.done = TRUE]]

\* list(g): resume g until it stops.
RECURSIVE ListOf(_, _)
ListOf(S, g) ==
    Bind(GenResume(S, g), LAMBDA r :
        IF r.out.kind = "ok" THEN ListOf(r.S, r.g)
        ELSE [S |-> r.S, g |-> r.g,
              out |-> IF r.out.exc = "StopIteration" THEN Ok(r.g.yielded) ELSE r.out])

\* ------------------------------------------------------------ process_data

\* result[col] = a list: by position; pandas refuses a list of another length.
SetList(idx, list) ==
    IF Len(list) = Len(idx) THEN Ok(list) ELSE Raise("ValueError")

\* A table with the pair find_extremes returns unpacked the wrong way round.
TableSwapped(f, ma, df, ac, maxima, minima) ==
    [index   |-> f.index,
     columns |-> [temperature     |-> AlignTo(f.index, Temperature(f)),
                  moving_average  |-> AlignTo(f.index, ma),
                  differential    |-> AlignTo(f.index, df),
                  autocorrelation |-> ac,
                  maxima          |-> AlignTo(f.index, minima),
                  minima          |-> AlignTo(f.index, maxima)]]

\* The table process_data returns.
Table(f, ma, df, ac, maxima, minima) ==
    [index   |-> f.index,
     columns |-> [temperature     |-> AlignTo(f.index, Temperature(f)),
                  moving_average  |-> AlignTo(f.index, ma),
                  differential    |-> AlignTo(f.index, df),
                  autocorrelation |-> ac,
                  maxima          |-> AlignTo(f.index, maxima),
                  minima          |-> AlignTo(f.index, minima)]]

\* The body of process_data for processor p, run from memo state S; an
\* exception of a step ends it there.
ProcessDataFn(S, p) ==
    Bind(Call(S, "moving_average", <<p>>, <<<<"window", ProcessWindow>>>>), LAMBDA ma :
    IF ma.out.kind # "ok" THEN [S |-> ma.S, out |-> ma.out] ELSE
    Bind(Call(ma.S, "differential", <<p>>, <<>>), LAMBDA df :
    IF df.out.kind # "ok" THEN [S |-> df.S, out |-> df.out] ELSE
    Bind(ListOf(df.S, NewGen(p)), LAMBDA ac :
    IF ac.out.kind # "ok" THEN [S |-> ac.S, out |-> ac.out] ELSE
    Bind(SetList(data[p].index, ac.out.val), LAMBDA col :
    IF col.kind # "ok" THEN [S |-> ac.S, out |-> col] ELSE
    Bind(Call(ac.S, "find_extremes", <<p>>, <<>>), LAMBDA ex :
    IF ex.out.kind # "ok" THEN [S |-> ex.S, out |-> ex.out] ELSE
    [S   |-> ex.S,
     out |-> Ok(Table(data[p], ma.out.val, df.out.val, col.val,
                      ex.out.val[1], ex.out.val[2]))])))))

\* Any call of a decorated method.
Invoke(S, m, args, kw) ==
    IF m = "process_data"
    THEN Wrapper(S, m, args, kw, ProcessDataFn(S, Arg(m, args, kw, "self")))
    ELSE Call(S, m, args, kw)

\* --------------------------------------------------------------- the calls

\* The orders in which the parameters after the first k can be passed by
\* keyword, as kwargs.items() lists them.
KwOrders(m, vals, k) ==
    LET r == Len(vals) - k
    IN  {[j \in 1..r |-> <<Params(m)[pi[j]], vals[pi[j]]>>] :
            pi \in {q \in [1..r -> (k + 1)..Len(vals)] :
                        \A a, b \in 1..r : a # b => q[a] # q[b]}}

\* The ways to call method m with parameter values vals: the first k by
\* position, the others by keyword in any order.  k = 0 is the call through the
\* class, WeatherDataProcessor.m(self=p, ...).
Forms(m, vals) ==
    UNION {{[args |-> SubSeq(vals, 1, k), kw |-> kws] : kws \in KwOrders(m, vals, k)} :
              k \in (IF m \in ClassCalls THEN 0 ELSE 1)..Len(vals)}

\* Window sizes the client passes to a processor over frame f: a negative
\* one, each size up to the series' length, and one beyond it.
Windows(f) == {-1} \cup 1..(NRows(f) + 1)

\* Lags the client asks autocorrelation for directly: those of the series.
Lags(f) == 0..Max(NRows(f) - 1, 0)

NoRet == [m |-> "", args |-> <<>>, kw |-> <<>>, kind |-> "none", val |-> NaN, exc |-> ""]

Returned(m, args, kw, out) ==
    [m |-> m, args |-> args, kw |-> kw, kind |-> out.kind, val |-> out.val, exc |-> out.exc]

\* The client calls method m as m(*c.args, **c.kw).
Do(m, c) ==
    /\ fuel > 0
    /\ fuel' = fuel - 1
    /\ \E r \in {Invoke(Memo, m, c.args, c.kw)} :
         /\ cache' = r.S.cache
         /\ execs' = r.S.execs
         /\ first' = r.S.first
         /\ ret' = Returned(m, c.args, c.kw, r.out)
    /\ UNCHANGED <<data, gens, threadVars>>

MovingAverage(p, window, c) == Do("moving_average", c)

Differential(p, c) == Do("differential", c)

Autocorrelation(p, lag, c) == Do("autocorrelation", c)

FindExtremes(p, c) == Do("find_extremes", c)

ProcessData(p, c) == Do("process_data", c)

\* g = p.autocorrelation_generator()
AutocorrelationGenerator(p) ==
    /\ fuel > 0
    /\ fuel' = fuel - 1
    /\ gens' = Append(gens, NewGen(p))
    /\ UNCHANGED <<data, cache, execs, first, ret, threadVars>>

\* next(g) for the i-th generator made
GenNext(i) ==
    /\ \E r \in {GenResume(Memo, gens[i])} :
         /\ gens' = [gens EXCEPT ![i] = r.g]
         /\ cache' = r.S.cache
         /\ execs' = r.S.execs
         /\ first' = r.S.first
         /\ ret' = Returned("next", <<i>>, <<>>, r.out)
    /\ UNCHANGED <<data, fuel, threadVars>>

Next ==
    \/ \E p \in DOMAIN data : \E w \in Windows(data[p]) :
         \E c \in Forms("moving_average", <<p, w>>) : MovingAverage(p, w, c)
    \/ \E p \in DOMAIN data : \E c \in Forms("differential", <<p>>) : Differential(p, c)
    \/ \E p \in DOMAIN data : \E lag \in Lags(data[p]) :
         \E c \in Forms("autocorrelation", <<p, lag>>) : Autocorrelation(p, lag, c)
    \/ \E p \in DOMAIN data : \E c \in Forms("find_extremes", <<p>>) : FindExtremes(p, c)
    \/ \E p \in DOMAIN data : \E c \in Forms("process_data", <<p>>) : ProcessData(p, c)
    \/ \E p \in DOMAIN data : AutocorrelationGenerator(p)
    \/ \E i \in DOMAIN gens : GenNext(i)

\* ------------------------------------------------------------- the threads
\* Each thread runs wrapper a statement at a time; another thread may run
\* between any two of them.

\* The calls the threads make: p.moving_average(w) and p.differential().
ThreadWindows == {-1, 1}

ThreadMenu ==
    {[m |-> "moving_average", args |-> <<p, w>>, kw |-> <<>>] : p \in Procs, w \in ThreadWindows}
    \cup {[m |-> "differential", args |-> <<p>>, kw |-> <<>>] : p \in Procs}

TKey(t) == Key(tcall[t].args, tcall[t].kw)

\* Where a thread goes when wrapper has returned or raised.
AfterCall == IF useLock THEN "release" ELSE "idle"

\* A thread starts a call: wrapper is entered and key is built.
TBegin(t, c) ==
    /\ tpc[t] = "idle"
    /\ fuel > 0
    /\ fuel' = fuel - 1
    /\ tcall' = [tcall EXCEPT ![t] = c]
    /\ tpc' = [tpc EXCEPT ![t] = IF useLock THEN "acquire" ELSE "check"]
    /\ UNCHANGED <<data, cache, execs, first, ret, gens, tval, lock, useLock>>

\* The caller takes the mutex before the call.
TAcquire(t) ==
    /\ tpc[t] = "acquire"
    /\ lock = 0
    /\ lock' = t
    /\ tpc' = [tpc EXCEPT ![t] = "check"]
    /\ UNCHANGED <<data, cache, execs, first, ret, gens, fuel, tcall, tval, useLock>>

\* if key not in cache
TCheck(t) ==
    /\ tpc[t] = "check"
    /\ tpc' = [tpc EXCEPT ![t] = IF Miss(cache[tcall[t].m], TKey(t)) THEN "call" ELSE "return"]
    /\ execs' = Ran(Memo, tcall[t].m, TKey(t), "calls").execs
    /\ UNCHANGED <<data, cache, first, ret, gens, fuel, tcall, tval, lock, useLock>>

\* func(*args, **kwargs), the right-hand side of the assignment; an exception
\* leaves wrapper here.
TCall(t) ==
    /\ tpc[t] = "call"
    /\ \E out \in {Func(tcall[t].m, tcall[t].args, tcall[t].kw)} :
         /\ execs' = Ran(Memo, tcall[t].m, TKey(t), IF out.kind = "ok" THEN "ok" ELSE "err").execs
         /\ tval' = [tval EXCEPT ![t] = out]
         /\ tpc' = [tpc EXCEPT ![t] = IF out.kind = "ok" THEN "store" ELSE AfterCall]
         /\ ret' = IF out.kind = "ok" THEN ret
                   ELSE Returned(tcall[t].m, tcall[t].args, tcall[t].kw, out)
    /\ UNCHANGED <<data, cache, first, gens, fuel, tcall, lock, useLock>>

\* cache[key] = the value func returned
TStore(t) ==
    /\ tpc[t] = "store"
    /\ \E T \in {Store(Memo, tcall[t].m, TKey(t), tval[t].val)} :
         /\ cache' = T.cache
         /\ first' = T.first
    /\ tpc' = [tpc EXCEPT ![t] = "return"]
    /\ UNCHANGED <<data, execs, ret, gens, fuel, tcall, tval, lock, useLock>>

\* return cache[key]
TReturn(t) ==
    /\ tpc[t] = "return"
    /\ ret' = Returned(tcall[t].m, tcall[t].args, tcall[t].kw, Ok(cache[tcall[t].m][TKey(t)]))
    /\ tpc' = [tpc EXCEPT ![t] = AfterCall]
    /\ UNCHANGED <<data, cache, execs, first, gens, fuel, tcall, tval, lock, useLock>>

\* The caller gives the mutex back after the call.
TRelease(t) ==
    /\ tpc[t] = "release"
    /\ lock' = 0
    /\ tpc' = [tpc EXCEPT ![t] = "idle"]
    /\ UNCHANGED <<data, cache, execs, first, ret, gens, fuel, tcall, tval, useLock>>

NextT ==
    \/ \E t \in Threads : \E c \in ThreadMenu : TBegin(t, c)
    \/ \E t \in Threads : TAcquire(t)
    \/ \E t \in Threads : TCheck(t)
    \/ \E t \in Threads : TCall(t)
    \/ \E t \in Threads : TStore(t)
    \/ \E t \in Threads : TReturn(t)
    \/ \E t \in Threads : TRelease(t)

\* ------------------------------------------------------------ initial states

EmptyMaps == [m \in Methods |-> <<>>]

\* The series of the repository's test (setUp).
TestSeries == <<0, 1, 2, 1, 3, 4, 2, 5, 6, 7>>

\* n consecutive days from day t.
Days(t, n) == [i \in 1..n |-> t + i - 1]

\* Every frame of at most MaxLen rows over Values, indexed by consecutive days.
Frames ==
    UNION {{Frame(Days(t, n), v) : t \in Starts, v \in [1..n -> Values]} : n \in 0..MaxLen}

\* The first rows of the test's series, from 2023-01-01 (day 1) on.
TestFrames == {Frame(Days(1, n), SubSeq(TestSeries, 1, n)) : n \in TestLens}

InitCommon ==
    /\ cache = EmptyMaps
    /\ execs = EmptyMaps
    /\ first = EmptyMaps
    /\ ret = NoRet
    /\ gens = <<>>
    /\ tpc = [t \in Threads |-> "idle"]
    /\ tcall = [t \in Threads |-> NoRet]
    /\ tval = [t \in Threads |-> NoRet]
    /\ lock = 0

\* Two processors, each over one of the test's frames.
Init ==
    /\ InitCommon
    /\ data \in [Procs -> TestFrames]
    /\ fuel = MaxCalls
    /\ useLock = FALSE

Spec == Init /\ [][Next]_vars

\* One processor over any frame.
InitPure ==
    /\ InitCommon
    /\ \E f \in Frames : data = (1 :> f)
    /\ fuel = PureCalls
    /\ useLock = FALSE

SpecPure == InitPure /\ [][Next]_vars

\* Two threads over two processors, with or without the callers' mutex.
InitT ==
    /\ InitCommon
    /\ data \in [Procs -> TestFrames]
    /\ fuel = ThreadCalls
    /\ useLock \in BOOLEAN

SpecT == InitT /\ [][NextT]_vars

\* ------------------------------------------------------------- the claims

\* The key of the call that returned last.
RetKey == Key(ret.args, ret.kw)

\* What method m computes for the processor and arguments of the call
\* m(*args, **kw), straight from that processor's frame.
Direct(m, args, kw) ==
    LET f == data[Arg(m, args, kw, "self")]
    IN  IF m = "process_data"
        THEN Ok(Table(f, MovingAverageFn(f, ProcessWindow).val, DifferentialFn(f).val,
                      [i \in 1..NRows(f) |-> AutocorrelationFn(f, i - 1).val],
                      FindExtremesFn(f).val[1], FindExtremesFn(f).val[2]))
        ELSE Func(m, args, kw)

\* C1: however often a cached operation is called with one argument
\* combination, its computation runs to a result at most once - exactly once
\* as soon as a call has returned - and every call that returns hands back
\* the result of that first run.
C1_ComputedOnce ==
    /\ \A m \in Methods : \A key \in DOMAIN execs[m] :
          /\ execs[m][key].ok <= 1
          /\ key \in DOMAIN cache[m] => execs[m][key].ok = 1
    /\ (ret.m \in Methods /\ ret.kind = "ok") =>
          /\ execs[ret.m][RetKey].ok = 1
          /\ ret.val = first[ret.m][RetKey]

\* process_data has been called twice with the same arguments and has run once.
C1_SecondCall ==
    /\ ret.m = "process_data"
    /\ ret.kind = "ok"
    /\ execs[ret.m][RetKey].calls = 2
    /\ execs[ret.m][RetKey].ok = 1

\* C2: a key is in the store only if the operation returned a result for it;
\* where the operation fails the store gets no entry, the caller gets the
\* exception, and every further call with the key runs the operation again.
C2_FailureNotCached ==
    /\ \A m \in Methods : DOMAIN cache[m] \subseteq DOMAIN execs[m]
    /\ \A m \in Methods : \A key \in DOMAIN execs[m] :
          /\ key \in DOMAIN cache[m] <=> execs[m][key].ok > 0
          /\ execs[m][key].err > 0 => execs[m][key].err = execs[m][key].calls
    /\ (ret.m \in Methods /\ execs[ret.m][RetKey].err > 0) =>
          /\ ret.kind = "raise"
          /\ ret.exc = "ValueError"
          /\ RetKey \notin DOMAIN cache[ret.m]

\* moving_average has failed twice for one key: the second call ran it again.
C2_Retried ==
    /\ ret.m = "moving_average"
    /\ ret.kind = "raise"
    /\ execs[ret.m][RetKey].calls = 2
    /\ execs[ret.m][RetKey].err = 2

\* Two keys of calls with the same positional arguments and the same
\* keyword name-to-value mapping.
SameArguments(k1, k2) ==
    /\ k1[1] = k2[1]
    /\ {k1[2][j] : j \in DOMAIN k1[2]} = {k2[2][j] : j \in DOMAIN k2[2]}

\* C3: calls whose positional arguments are equal in order and whose keyword
\* arguments form the same mapping share one cache entry: the operation runs
\* once for all of them.
C3_KeywordOrderIgnored ==
    \A m \in Methods : \A k1, k2 \in DOMAIN execs[m] :
        (k1 # k2 /\ SameArguments(k1, k2)) => execs[m][k1].ok + execs[m][k2].ok <= 1

\* The processors a key names: its first positional argument, or its
\* keyword argument self.
SelfOf(key) ==
    IF key[1] # <<>> THEN {key[1][1]}
    ELSE {key[2][j][2] : j \in {i \in DOMAIN key[2] : key[2][i][1] = "self"}}

\* C10 (state part): the one store of a method holds the entries of all
\* processors, each key naming its processor, and a call on a processor hands
\* back what the method computes from that processor's own frame.
C10_OwnValue ==
    /\ \A m \in Methods : \A key \in DOMAIN cache[m] :
          SelfOf(key) # {} /\ SelfOf(key) \subseteq DOMAIN data
    /\ (ret.m \in Methods /\ ret.kind = "ok") => ret.val = Direct(ret.m, ret.args, ret.kw).val

\* C10 (step part): no step removes an entry or changes its value.
C10_Kept ==
    \A m \in Methods : \A key \in DOMAIN cache[m] :
        key \in DOMAIN cache'[m] /\ cache'[m][key] = cache[m][key]

\* C10: a cached call never returns another processor's value, and entries
\* are never removed or overwritten.
C10_PerInstance == []C10_OwnValue /\ [][C10_Kept]_vars

\* differential's store holds entries of both processors with different
\* values, and the last call got its own.
C10_TwoInstances ==
    /\ ret.m = "differential"
    /\ ret.kind = "ok"
    /\ \E key \in DOMAIN cache["differential"] :
          /\ SelfOf(key) # SelfOf(RetKey)
          /\ cache["differential"][key] # ret.val

\* The frame and the arguments of the call that returned last.
RetFrame == data[Arg(ret.m, ret.args, ret.kw, "self")]

RetWindow == Arg(ret.m, ret.args, ret.kw, "window")

\* S[i-w+1] + ... + S[i]
WindowSum(S, i, w) == SumSeq(SubSeq(S, i - w + 1, i))

\* C5: for a positive window w, moving_average returns one entry per row
\* under the input's index; entry i (from 1) is present exactly when i >= w
\* and is then the mean of the w values ending at row i; n-w+1 entries are
\* present when w <= n and none, without an error, when w > n.
C5_MovingAverage ==
    (ret.m = "moving_average" /\ RetWindow >= 1) =>
        LET S == RetFrame.temperature
            n == Len(S)
            w == RetWindow
        IN  /\ ret.kind = "ok"
            /\ ret.val.index = RetFrame.index
            /\ Len(ret.val.values) = n
            /\ \A i \in 1..n :
                  IF i >= w THEN ret.val.values[i] = Rat(WindowSum(S, i, w), w)
                  ELSE IsNaN(ret.val.values[i])
            /\ Cardinality({i \in 1..n : ~IsNaN(ret.val.values[i])})
                  = IF w <= n THEN n - w + 1 ELSE 0

\* moving_average(2) of a three-row series whose last window has the mean 3/2.
C5_HalfMean ==
    /\ ret.m = "moving_average"
    /\ RetWindow = 2
    /\ NRows(RetFrame) = 3
    /\ ret.kind = "ok"
    /\ IsNaN(ret.val.values[1])
    /\ ret.val.values[3] = <<3, 2>>

\* Row i of S is strictly above (below) both its neighbours.
IsMaximum(S, i) == 1 < i /\ i < Len(S) /\ S[i] > S[i - 1] /\ S[i] > S[i + 1]

IsMinimum(S, i) == 1 < i /\ i < Len(S) /\ S[i] < S[i - 1] /\ S[i] < S[i + 1]

\* Series s holds exactly the rows of frame f that satisfy P, each under its
\* timestamp and with its value, and nothing else.
HoldsExactly(s, f, P(_)) ==
    /\ Len(s.index) = Len(s.values)
    /\ Len(s.index) = Cardinality({i \in 1..NRows(f) : P(i)})
    /\ \A i \in 1..NRows(f) : P(i) <=> \E j \in DOMAIN s.index : s.index[j] = f.index[i]
    /\ \A j \in DOMAIN s.index :
          \E i \in 1..NRows(f) : s.index[j] = f.index[i] /\ s.values[j] = Num(f.temperature[i])

\* C6: find_extremes returns (maxima, minima): maxima holds exactly the rows
\* that are neither first nor last and strictly above both neighbours,
\* minima those strictly below both, each under its timestamp with its
\* value; every other row is absent.
C6_FindExtremes ==
    ret.m = "find_extremes" =>
        /\ ret.kind = "ok"
        /\ HoldsExactly(ret.val[1], RetFrame, LAMBDA i : IsMaximum(RetFrame.temperature, i))
        /\ HoldsExactly(ret.val[2], RetFrame, LAMBDA i : IsMinimum(RetFrame.temperature, i))

\* find_extremes found the one maximum of a three-row series.
C6_OneMaximum ==
    /\ ret.m = "find_extremes"
    /\ ret.kind = "ok"
    /\ NRows(RetFrame) = 3
    /\ Len(ret.val[1].index) = 1
    /\ Len(ret.val[2].index) = 0

\* C4: process_data returns a table with exactly the six columns, the
\* input's index and row count; temperature is the input, row i of
\* autocorrelation is the autocorrelation at lag i (from 0), and maxima and
\* minima hold the value on the rows that are extrema and are missing on
\* all others.
C4_ProcessData ==
    ret.m = "process_data" =>
        /\ ret.kind = "ok"
        /\ DOMAIN ret.val.columns =
              {"temperature", "moving_average", "differential", "autocorrelation",
               "maxima", "minima"}
        /\ ret.val.index = RetFrame.index
        /\ \A c \in DOMAIN ret.val.columns : Len(ret.val.columns[c]) = NRows(RetFrame)
        /\ \A i \in 1..NRows(RetFrame) :
              LET S == RetFrame.temperature
                  t == ret.val.columns
              IN  /\ t.temperature[i] = Num(S[i])
                  /\ t.autocorrelation[i] = AutocorrelationFn(RetFrame, i - 1).val
                  /\ t.maxima[i] = IF IsMaximum(S, i) THEN Num(S[i]) ELSE NaN
                  /\ t.minima[i] = IF IsMinimum(S, i) THEN Num(S[i]) ELSE NaN

\* process_data returned the table of a three-row series with a maximum.
C4_TableWithMaximum ==
    /\ ret.m = "process_data"
    /\ ret.kind = "ok"
    /\ NRows(RetFrame) = 3
    /\ ~IsNaN(ret.val.columns.maxima[2])
    /\ ~IsNaN(ret.val.columns.autocorrelation[2])

\* C7: differential, find_extremes, autocorrelation and process_data fail
\* with InsufficientData on a series of fewer than two rows.
C7_ShortSeriesRejected ==
    (/\ ret.m \in {"differential", "find_extremes", "autocorrelation", "process_data"}
     /\ NRows(RetFrame) <= 1) =>
        /\ ret.kind = "raise"
        /\ ret.exc = "InsufficientData"

\* C8 (state part): a generator has yielded one value per lag it has passed,
\* in increasing lag order from 0, the k-th being the autocorrelation at lag
\* k and the value a direct call autocorrelation(k) is served from the store;
\* it stops after exactly n values; generators of one processor yield equal
\* sequences.
C8_Yielded ==
    /\ \A i \in DOMAIN gens :
          LET g == gens[i]
              f == data[g.p]
          IN  /\ Len(g.yielded) = g.lag
              /\ g.lag <= NRows(f)
              /\ g.done => g.lag = NRows(f)
              /\ \A k \in 1..Len(g.yielded) :
                    /\ g.yielded[k] = AutocorrelationFn(f, k - 1).val
                    /\ g.yielded[k] = cache["autocorrelation"][<<<<g.p, k - 1>>, <<>>>>]
    /\ \A i, j \in DOMAIN gens :
          (gens[i].p = gens[j].p /\ gens[i].lag <= gens[j].lag) =>
              gens[i].yielded = SubSeq(gens[j].yielded, 1, gens[i].lag)
    /\ (ret.m = "next" /\ ret.kind = "raise") =>
          /\ ret.exc = "StopIteration"
          /\ gens[ret.args[1]].done
    /\ (ret.m = "next" /\ ret.kind = "ok") =>
          ret.val = gens[ret.args[1]].yielded[gens[ret.args[1]].lag]

\* The runs of autocorrelation to a result, over every key.
AcRuns(e) == [key \in DOMAIN e["autocorrelation"] |-> e["autocorrelation"][key].ok]

\* The key under which a generator of processor p asks for lag k.
GenKey(p, k) == <<<<p, k>>, <<>>>>

\* The keys of autocorrelation's store that stand for lag k of processor p,
\* however the call passed the lag.
KeysOfLag(p, k) ==
    {key \in DOMAIN execs["autocorrelation"] :
        /\ Arg("autocorrelation", key[1], key[2], "self") = p
        /\ Arg("autocorrelation", key[1], key[2], "lag") = k}

\* C8 (step part, lazy): making a generator runs no computation, and a
\* resumption of a generator runs at most the computation of the one lag it is
\* asked for.
C8_Lazy ==
    /\ Len(gens') > Len(gens) => execs' = execs
    /\ \A i \in DOMAIN gens : gens'[i] # gens[i] =>
          /\ \A m \in Methods \ {"autocorrelation"} : execs'[m] = execs[m]
          /\ \A key \in DOMAIN execs'["autocorrelation"] :
                key # GenKey(gens[i].p, gens[i].lag) =>
                    /\ key \in DOMAIN execs["autocorrelation"]
                    /\ execs'["autocorrelation"][key] = execs["autocorrelation"][key]

\* C8 (step part, as claimed): a resumption for a lag that any earlier call
\* computed - a generator's, process_data's or a direct call's, however it
\* passed the lag - runs no computation.
C8_ReusesAnyCall ==
    \A i \in DOMAIN gens :
        (/\ gens'[i] # gens[i]
         /\ \E key \in KeysOfLag(gens[i].p, gens[i].lag) :
               execs["autocorrelation"][key].ok > 0) =>
            AcRuns(execs') = AcRuns(execs)

\* C8 (step part, amended): a resumption for a lag that an earlier call
\* computed under the generator's own key - a generator's, process_data's or a
\* direct call passing the lag by position - runs no computation.
C8_ReusesPositional ==
    \A i \in DOMAIN gens :
        (/\ gens'[i] # gens[i]
         /\ GenKey(gens[i].p, gens[i].lag) \in DOMAIN execs["autocorrelation"]
         /\ execs["autocorrelation"][GenKey(gens[i].p, gens[i].lag)].ok > 0) =>
            AcRuns(execs') = AcRuns(execs)

\* C8, as claimed: the generator of a series of n rows yields exactly n
\* values, the k-th the autocorrelation at lag k, lazily and in lag order, and
\* a run computes no lag that an earlier run or any earlier direct call with
\* the same lag computed.
C8_GeneratorAnyCall == []C8_Yielded /\ [][C8_Lazy /\ C8_ReusesAnyCall]_vars

\* C8, amended: as above, but a run computes no lag that an earlier run,
\* process_data or an earlier direct call passing the lag by position computed;
\* after autocorrelation(lag=k) alone the generator computes lag k again.
C8_Generator == []C8_Yielded /\ [][C8_Lazy /\ C8_ReusesPositional]_vars

\* A second generator of a processor has run to its end after a first one did.
C8_SecondRun ==
    \E i, j \in DOMAIN gens :
        /\ i < j
        /\ gens[i].p = gens[j].p
        /\ gens[i].done
        /\ gens[j].done
        /\ Len(gens[j].yielded) >= 2
        /\ \A k \in 0..(gens[j].lag - 1) :
              execs["autocorrelation"][GenKey(gens[j].p, k)] = [calls |-> 2, ok |-> 1, err |-> 0]

\* C9: with the callers' mutex held across every call, the computation of a
\* key runs to a result at most once, exactly once for a key in the store,
\* whatever the interleaving; (without the mutex two runs are reachable, see
\* the witness).
C9_LockedOnce ==
    useLock =>
        /\ \A m \in Methods : \A key \in DOMAIN execs[m] : execs[m][key].ok <= 1
        /\ \A m \in Methods : \A key \in DOMAIN cache[m] : execs[m][key].ok = 1
        /\ \A t, u \in Threads :
              (t # u /\ tpc[t] \in {"check", "call", "store", "return"}) =>
                  tpc[u] \notin {"check", "call", "store", "return"}

\* Without the mutex both threads passed the check before either stored, and
\* the computation of one key ran twice.
C9_Race ==
    /\ ~useLock
    /\ \E m \in Methods : \E key \in DOMAIN execs[m] :
          /\ execs[m][key].ok = 2
          /\ \A t \in Threads : tcall[t].m = m /\ TKey(t) = key

====
